---- MODULE Spec2Model ----
(***************************************************************************)
(* Model of two lint rules of biome_js_analyze and of the per-match        *)
(* rule cycle (query -> run -> diagnostic -> action -> commit):            *)
(*   - style/useSelfClosingElements  (use_self_closing_elements.rs)        *)
(*   - suspicious/useValidTypeof     (use_valid_typeof.rs)                 *)
(* Text is a sequence of one-character strings, so that trimming,          *)
(* lower-casing and trivia slicing are computed, not assumed.              *)
(***************************************************************************)
EXTENDS Integers, Sequences, FiniteSets, Bags, TLC

VARIABLES
    rule,        \* which rule is being run: "useSelfClosingElements" | "useValidTypeof"
    quote,       \* ctx.as_preferred_quote(): "double" | "single"
    tree,        \* the node handed to the query layer (the current tree)
    phase,       \* position in the rule cycle
    state,       \* Option<Rule::State> returned by run
    diag,        \* Option<RuleDiagnostic> returned by diagnostic
    act,         \* Option<JsRuleAction> returned by action
    pass         \* number of the analysis pass (1 = on the parsed tree)

vars == <<rule, quote, tree, phase, state, diag, act, pass>>

\* ------------------------------------------------------------------ bounds
\* widest run of blanks in one whitespace trivia piece
MaxSpaces == 2
\* most attributes on an opening element
MaxAttrs == 1
\* most children of a JsxElement
MaxChildren == 1
\* analysis passes run over one tree (a pass after a committed fix included)
MaxPasses == 2

\* ------------------------------------------------------------ Option values
None == [some |-> FALSE]
Some(v) == [some |-> TRUE, val |-> v]
\* a required child slot that recovery-mode parsing left empty (SyntaxResult::Err)
Missing == [missing |-> TRUE]
IsMissing(x) == x = Missing

\* ------------------------------------------------------------------- text
RECURSIVE Repeat(_, _)
Repeat(c, n) == IF n = 0 THEN <<>> ELSE <<c>> \o Repeat(c, n - 1)

\* str::ends_with(char)
EndsWith(s, c) == Len(s) > 0 /\ s[Len(s)] = c

\* char::to_lowercase on the ASCII letters
ToLowerChar(c) ==
    CASE c = "A" -> "a" [] c = "B" -> "b" [] c = "C" -> "c" [] c = "D" -> "d"
      [] c = "E" -> "e" [] c = "F" -> "f" [] c = "G" -> "g" [] c = "H" -> "h"
      [] c = "I" -> "i" [] c = "J" -> "j" [] c = "K" -> "k" [] c = "L" -> "l"
      [] c = "M" -> "m" [] c = "N" -> "n" [] c = "O" -> "o" [] c = "P" -> "p"
      [] c = "Q" -> "q" [] c = "R" -> "r" [] c = "S" -> "s" [] c = "T" -> "t"
      [] c = "U" -> "u" [] c = "V" -> "v" [] c = "W" -> "w" [] c = "X" -> "x"
      [] c = "Y" -> "y" [] c = "Z" -> "z" [] OTHER -> c

\* str::to_lowercase
ToLowercase(s) == [i \in 1..Len(s) |-> ToLowerChar(s[i])]

QuoteChars == {"\"", "'"}

\* str::trim_start_matches(['"', '\'']): strips every leading quote character
RECURSIVE TrimStartMatches(_)
TrimStartMatches(s) ==
    IF s # <<>> /\ Head(s) \in QuoteChars THEN TrimStartMatches(Tail(s)) ELSE s

\* str::trim_end_matches(['"', '\'']): strips every trailing quote character
RECURSIVE TrimEndMatches(_)
TrimEndMatches(s) ==
    IF s # <<>> /\ s[Len(s)] \in QuoteChars
    THEN TrimEndMatches(SubSeq(s, 1, Len(s) - 1)) ELSE s

\* ----------------------------------------------------------------- tokens
\* A token is [kind, text, leading, trailing]: text is the whole text of the
\* token, trivia included; leading and trailing are lists of TriviaPiece,
\* a TriviaPiece is [kind, len].
TriviaPiece(kind, len) == [kind |-> kind, len |-> len]
TriviaPieceWhitespace(len) == TriviaPiece("Whitespace", len)

RECURSIVE TriviaLen(_)
TriviaLen(pieces) ==
    IF pieces = <<>> THEN 0 ELSE Head(pieces).len + TriviaLen(Tail(pieces))

\* token.leading_trivia().text()
LeadingTriviaText(tok) == SubSeq(tok.text, 1, TriviaLen(tok.leading))
\* token.trailing_trivia().text()
TrailingTriviaText(tok) ==
    SubSeq(tok.text, Len(tok.text) - TriviaLen(tok.trailing) + 1, Len(tok.text))
\* token.text_trimmed()
TextTrimmed(tok) ==
    SubSeq(tok.text, TriviaLen(tok.leading) + 1, Len(tok.text) - TriviaLen(tok.trailing))

\* the pieces of a trivia list with their text: [kind, text], cut out of
\* `text` starting after `offset` characters
RECURSIVE PiecesFrom(_, _, _)
PiecesFrom(text, offset, pieces) ==
    IF pieces = <<>> THEN <<>>
    ELSE <<[kind |-> Head(pieces).kind,
            text |-> SubSeq(text, offset + 1, offset + Head(pieces).len)]>>
         \o PiecesFrom(text, offset + Head(pieces).len, Tail(pieces))

\* token.leading_trivia().pieces()
LeadingPieces(tok) == PiecesFrom(tok.text, 0, tok.leading)
\* token.trailing_trivia().pieces()
TrailingPieces(tok) ==
    PiecesFrom(tok.text, Len(tok.text) - TriviaLen(tok.trailing), tok.trailing)

\* JsSyntaxToken::new_detached(kind, text, leading, trailing)
NewDetached(kind, text, leading, trailing) ==
    [kind |-> kind, text |-> text, leading |-> leading, trailing |-> trailing]

\* token.with_leading_trivia([]): the same token without its leading trivia
WithLeadingTriviaEmpty(tok) ==
    [kind |-> tok.kind,
     text |-> SubSeq(tok.text, TriviaLen(tok.leading) + 1, Len(tok.text)),
     leading |-> <<>>,
     trailing |-> tok.trailing]

\* a parsed token, from the text of its trivia pieces ([kind, text]) and its own text
RECURSIVE PieceLens(_)
PieceLens(ps) ==
    IF ps = <<>> THEN <<>>
    ELSE <<TriviaPiece(Head(ps).kind, Len(Head(ps).text))>> \o PieceLens(Tail(ps))
RECURSIVE PieceText(_)
PieceText(ps) == IF ps = <<>> THEN <<>> ELSE Head(ps).text \o PieceText(Tail(ps))
Token(kind, leading, text, trailing) ==
    [kind |-> kind,
     text |-> PieceText(leading) \o text \o PieceText(trailing),
     leading |-> PieceLens(leading),
     trailing |-> PieceLens(trailing)]

\* ------------------------------------------------------- JSX tree (input)
Ws(n) == [kind |-> "Whitespace", text |-> Repeat(" ", n)]
Tab == [kind |-> "Whitespace", text |-> <<"\t">>]
Nl == [kind |-> "Newline", text |-> <<"\n">>]
Comment == [kind |-> "MultiLineComment", text |-> <<"/", "*", "*", "/">>]

\* trailing trivia the lexer can attach to the token before `>` (it stops at a newline)
TrailingOptions ==
    {<<>>, <<Tab>>, <<Ws(1), Comment>>} \cup {<<Ws(n)>> : n \in 1..MaxSpaces}
\* leading trivia the lexer can attach to `>` (it starts after a newline)
LeadingOptions ==
    {<<>>, <<Nl>>} \cup {<<Nl, Ws(n)>> : n \in 1..MaxSpaces}
\* trivia inside the closing tag, after its name and before its `>`
ClosingNameTrailingOptions == {<<>>, <<Ws(1), Comment>>}
ClosingLeadingOptions == {<<>>, <<Nl>>}

DivText == <<"d", "i", "v">>
AttrText == <<"a">>
TypeArgsText == <<"<", "T", ">">>

\* the tokens between `<` and `>` of an opening tag: name, type arguments,
\* attributes; `last` is the trailing trivia of the last of them, the others
\* are followed by one blank where the grammar needs a separator
OpeningFields(hasTypeArgs, nAttrs, last) ==
    [name |-> Token("JSX_IDENT", <<>>, DivText,
                    IF ~hasTypeArgs /\ nAttrs = 0 THEN last
                    ELSE IF hasTypeArgs THEN <<>> ELSE <<Ws(1)>>),
     type_arguments |->
        IF hasTypeArgs
        THEN Some(Token("TS_TYPE_ARGUMENTS", <<>>, TypeArgsText,
                        IF nAttrs = 0 THEN last ELSE <<Ws(1)>>))
        ELSE None,
     attributes |->
        [i \in 1..nAttrs |->
            Token("JSX_ATTRIBUTE", <<>>, AttrText,
                  IF i = nAttrs THEN last ELSE <<Ws(1)>>)]]

JsxOpeningElement(l, f, r) ==
    [l_angle_token |-> l, name |-> f.name, type_arguments |-> f.type_arguments,
     attributes |-> f.attributes, r_angle_token |-> r]

\* the closing tag; the element ends the source text, nothing follows its `>`
JsxClosingElement(nameTrailing, leading) ==
    [l_angle_token |-> Token("<", <<>>, <<"<">>, <<>>),
     slash_token |-> Token("/", <<>>, <<"/">>, <<>>),
     name |-> Token("JSX_IDENT", <<>>, DivText, nameTrailing),
     r_angle_token |-> Token(">", leading, <<">">>, <<>>)]

JsxText == [kind |-> "JsxText"]

MissingSlots == {"none", "opening_element", "l_angle_token", "name", "r_angle_token"}

\* a JsxElement as the parser hands it over; `miss` names the required child
\* that recovery-mode parsing left out, if any
JsxElement(miss, hasTypeArgs, nAttrs, last, rLeading, nChildren, cNameTrailing, cLeading) ==
    LET f == OpeningFields(hasTypeArgs, nAttrs, last)
        g == IF miss = "name" THEN [f EXCEPT !.name = Missing] ELSE f
        l == IF miss = "l_angle_token" THEN Missing
             ELSE Token("<", <<>>, <<"<">>, <<>>)
        r == IF miss = "r_angle_token" THEN Missing
             ELSE Token(">", rLeading, <<">">>, <<>>)
    IN  [kind |-> "JsxElement",
         opening_element |->
            IF miss = "opening_element" THEN Missing ELSE JsxOpeningElement(l, g, r),
         children |-> [i \in 1..nChildren |-> JsxText],
         closing_element |-> JsxClosingElement(cNameTrailing, cLeading)]

JsxElements ==
    {JsxElement(miss, ta, na, last, rl, nc, cn, ct) :
        miss \in MissingSlots, ta \in BOOLEAN, na \in 0..MaxAttrs,
        last \in TrailingOptions, rl \in LeadingOptions, nc \in 0..MaxChildren,
        cn \in ClosingNameTrailingOptions, ct \in ClosingLeadingOptions}

\* ------------------------------------------------- tokens in document order
Present(x) == IF IsMissing(x) THEN <<>> ELSE <<x>>
Optional(o) == IF o.some THEN <<o.val>> ELSE <<>>

\* the tokens of an opening tag that precede its `>`
TokensBeforeRAngle(open) ==
    Present(open.l_angle_token) \o Present(open.name)
    \o Optional(open.type_arguments) \o open.attributes

OpeningTokens(open) ==
    IF IsMissing(open) THEN <<>>
    ELSE TokensBeforeRAngle(open) \o Present(open.r_angle_token)

ClosingTokens(close) ==
    <<close.l_angle_token, close.slash_token, close.name, close.r_angle_token>>

\* every token of a tag, in document order
TagTokens(node) ==
    IF node.kind = "JsxElement"
    THEN OpeningTokens(node.opening_element) \o ClosingTokens(node.closing_element)
    ELSE <<node.l_angle_token, node.name>> \o Optional(node.type_arguments)
         \o node.attributes \o <<node.slash_token, node.r_angle_token>>

\* r_angle_token.prev_token(): the token before `>`; the element is the root
\* of the tree, so nothing precedes its first token
PrevToken(open) ==
    LET before == TokensBeforeRAngle(open)
    IN  IF before = <<>> THEN None ELSE Some(before[Len(before)])

RECURSIVE TokensText(_)
TokensText(toks) == IF toks = <<>> THEN <<>> ELSE Head(toks).text \o TokensText(Tail(toks))

\* node.range(): the text range of a node without the leading trivia of its
\* first token and the trailing trivia of its last token
NodeRange(toks) ==
    IF toks = <<>> THEN <<0, 0>>
    ELSE <<TriviaLen(toks[1].leading),
           Len(TokensText(toks)) - TriviaLen(toks[Len(toks)].trailing)>>

\* ------------------------------------------------ useSelfClosingElements
\* type Query = Ast<JsxElement>
SelfClosingQuery(node) == node.kind = "JsxElement"

\* run: a state for an element without children
SelfClosingRun(node) ==
    IF node.children = <<>> THEN Some(<<>>) ELSE None

\* diagnostic: always reported, over the range of the element
SelfClosingDiagnostic(node) ==
    Some([category |-> "lint/style/useSelfClosingElements",
          range |-> NodeRange(TagTokens(node))])

\* the pieces pushed by the loop over r_angle_token.leading_trivia().pieces()
RECURSIVE CopiedTrivia(_)
CopiedTrivia(pieces) ==
    IF pieces = <<>> THEN <<>>
    ELSE <<TriviaPiece(Head(pieces).kind, Len(Head(pieces).text))>>
         \o CopiedTrivia(Tail(pieces))

\* the text pushed by the loop over r_angle_token.leading_trivia().pieces()
RECURSIVE CopiedText(_)
CopiedText(pieces) ==
    IF pieces = <<>> THEN <<>> ELSE Head(pieces).text \o CopiedText(Tail(pieces))

\* variant of need_extra_whitespace: the trailing trivia is not looked at
NeedExtraWhitespaceAlways(prev_token) == TRUE

\* need_extra_whitespace: no previous token, or its trailing trivia does not
\* end with a blank
NeedExtraWhitespace(prev_token) ==
    IF prev_token.some
    THEN ~EndsWith(TrailingTriviaText(prev_token.val), " ")
    ELSE TRUE

\* whether the synthetic blank is pushed
ExtraWhitespace(r_angle_token, prev_token) ==
    CopiedTrivia(LeadingPieces(r_angle_token)) = <<>> /\ NeedExtraWhitespace(prev_token)

\* variant of `leading_trivia`: the piece of the synthetic blank is not pushed
SlashLeadingTriviaCopiedOnly(r_angle_token, prev_token) ==
    CopiedTrivia(LeadingPieces(r_angle_token))

\* `leading_trivia` when the `/` token is built
SlashLeadingTrivia(r_angle_token, prev_token) ==
    CopiedTrivia(LeadingPieces(r_angle_token))
    \o (IF ExtraWhitespace(r_angle_token, prev_token)
        THEN <<TriviaPieceWhitespace(1)>> ELSE <<>>)

\* `slash_token` when the `/` token is built
SlashText(r_angle_token, prev_token) ==
    CopiedText(LeadingPieces(r_angle_token))
    \o (IF ExtraWhitespace(r_angle_token, prev_token) THEN <<" ">> ELSE <<>>)
    \o <<"/">>

\* make::jsx_self_closing_element(...).with_type_arguments(...).build()
JsxSelfClosingElement(l_angle_token, name, type_arguments, attributes, slash_token, r_angle_token) ==
    [kind |-> "JsxSelfClosingElement",
     l_angle_token |-> l_angle_token, name |-> name,
     type_arguments |-> type_arguments, attributes |-> attributes,
     slash_token |-> slash_token, r_angle_token |-> r_angle_token]

JsRuleAction(prev_node, next_node) ==
    [category |-> "QuickFix", applicability |-> "MaybeIncorrect",
     mutation |-> [prev_node |-> prev_node, next_node |-> next_node]]

\* variant of the action: the element is replaced by itself
SelfClosingActionSameNode(node) ==
    IF IsMissing(node.opening_element) THEN None
    ELSE IF IsMissing(node.opening_element.r_angle_token) THEN None
    ELSE IF IsMissing(node.opening_element.l_angle_token) THEN None
    ELSE IF IsMissing(node.opening_element.name) THEN None
    ELSE Some(JsRuleAction(node, node))

\* variant of the action: a missing name does not stop it
SelfClosingActionNoNameCheck(node) ==
    LET open == node.opening_element IN
    IF IsMissing(open) THEN None
    ELSE IF IsMissing(open.r_angle_token) THEN None
    ELSE IF IsMissing(open.l_angle_token) THEN None
    ELSE LET prev_token == PrevToken(open)
             slash == NewDetached("/",
                         SlashText(open.r_angle_token, prev_token),
                         SlashLeadingTrivia(open.r_angle_token, prev_token),
                         <<>>)
         IN  Some(JsRuleAction(node,
                    JsxSelfClosingElement(open.l_angle_token, open.name,
                        open.type_arguments, open.attributes, slash,
                        WithLeadingTriviaEmpty(open.r_angle_token))))

\* action: None when a required child is missing, else the replacement of
\* the element by a self-closing element
SelfClosingAction(node) ==
    LET open == node.opening_element IN
    IF IsMissing(open) THEN None
    ELSE IF IsMissing(open.r_angle_token) THEN None
    ELSE IF IsMissing(open.l_angle_token) THEN None
    ELSE IF IsMissing(open.name) THEN None
    ELSE LET prev_token == PrevToken(open)
             slash == NewDetached("/",
                         SlashText(open.r_angle_token, prev_token),
                         SlashLeadingTrivia(open.r_angle_token, prev_token),
                         <<>>)
         IN  Some(JsRuleAction(node,
                    JsxSelfClosingElement(open.l_angle_token, open.name,
                        open.type_arguments, open.attributes, slash,
                        WithLeadingTriviaEmpty(open.r_angle_token))))

\* ------------------------------------------------------------ JsTypeName
StrUndefined == <<"u", "n", "d", "e", "f", "i", "n", "e", "d">>
StrObject == <<"o", "b", "j", "e", "c", "t">>
StrBoolean == <<"b", "o", "o", "l", "e", "a", "n">>
StrNumber == <<"n", "u", "m", "b", "e", "r">>
StrString == <<"s", "t", "r", "i", "n", "g">>
StrFunction == <<"f", "u", "n", "c", "t", "i", "o", "n">>
StrSymbol == <<"s", "y", "m", "b", "o", "l">>
StrBigInt == <<"b", "i", "g", "i", "n", "t">>

JsTypeNames ==
    {"Undefined", "Object", "Boolean", "Number", "String", "Function", "Symbol", "BigInt"}

\* variant of from_str: the arm of "bigint" is left out
FromStrNoBigInt(s) ==
    CASE s = StrUndefined -> Some("Undefined")
      [] s = StrObject -> Some("Object")
      [] s = StrBoolean -> Some("Boolean")
      [] s = StrNumber -> Some("Number")
      [] s = StrString -> Some("String")
      [] s = StrFunction -> Some("Function")
      [] s = StrSymbol -> Some("Symbol")
      [] OTHER -> None

\* JsTypeName::from_str
FromStr(s) ==
    CASE s = StrUndefined -> Some("Undefined")
      [] s = StrObject -> Some("Object")
      [] s = StrBoolean -> Some("Boolean")
      [] s = StrNumber -> Some("Number")
      [] s = StrString -> Some("String")
      [] s = StrFunction -> Some("Function")
      [] s = StrSymbol -> Some("Symbol")
      [] s = StrBigInt -> Some("BigInt")
      [] OTHER -> None

\* JsTypeName::as_str
AsStr(t) ==
    CASE t = "Undefined" -> StrUndefined
      [] t = "Object" -> StrObject
      [] t = "Boolean" -> StrBoolean
      [] t = "Number" -> StrNumber
      [] t = "String" -> StrString
      [] t = "Function" -> StrFunction
      [] t = "Symbol" -> StrSymbol
      [] t = "BigInt" -> StrBigInt

\* ------------------------------------------------ expressions (input)
\* An expression is [kind, text, range, ...]; text is its source text (the
\* model gives expressions no trivia), range is set when it is placed in a tree.
PlainToken(kind, text) == Token(kind, <<>>, text, <<>>)

\* `"..."` or `'...'`
JsStringLiteralExpression(text) ==
    [kind |-> "AnyJsLiteralExpression", literal |-> "JsStringLiteralExpression",
     value_token |-> Some(PlainToken("JS_STRING_LITERAL", text)),
     text |-> text, range |-> <<0, Len(text)>>]

\* a string literal whose value token is missing
JsStringLiteralMissingValue ==
    [kind |-> "AnyJsLiteralExpression", literal |-> "JsStringLiteralExpression",
     value_token |-> None, text |-> <<>>, range |-> <<0, 0>>]

\* `5`
JsNumberLiteralExpression ==
    [kind |-> "AnyJsLiteralExpression", literal |-> "JsNumberLiteralExpression",
     value_token |-> Some(PlainToken("JS_NUMBER_LITERAL", <<"5">>)),
     text |-> <<"5">>, range |-> <<0, 1>>]

\* an identifier; name is Some([value_token |-> Some(token)]) when complete
JsIdentifierExpression(text) ==
    [kind |-> "JsIdentifierExpression",
     name |-> Some([value_token |-> Some(PlainToken("IDENT", text))]),
     text |-> text, range |-> <<0, Len(text)>>]

JsIdentifierMissingName ==
    [kind |-> "JsIdentifierExpression", name |-> None,
     text |-> <<>>, range |-> <<0, 0>>]

JsIdentifierMissingValue ==
    [kind |-> "JsIdentifierExpression", name |-> Some([value_token |-> None]),
     text |-> <<>>, range |-> <<0, 0>>]

\* `typeof x`, `-5`, or a unary expression whose operator token is missing
JsUnaryExpression(operator) ==
    LET text == CASE operator = Some("Typeof") -> <<"t", "y", "p", "e", "o", "f", " ", "x">>
                  [] operator = Some("Minus") -> <<"-", "5">>
                  [] OTHER -> <<"x">>
    IN  [kind |-> "JsUnaryExpression", operator |-> operator,
         text |-> text, range |-> <<0, Len(text)>>]

\* `f()`
JsCallExpression ==
    [kind |-> "JsCallExpression", text |-> <<"f", "(", ")">>, range |-> <<0, 3>>]

Quoted(q, s) == <<q>> \o s \o <<q>>

\* literal contents the model compares typeof with: the type names, the
\* type names in another letter case, misspellings
OtherCase ==
    {<<"S", "t", "r", "i", "n", "g">>,
     <<"U", "N", "D", "E", "F", "I", "N", "E", "D">>,
     <<"B", "i", "g", "I", "n", "t">>,
     <<"O", "b", "j", "e", "c", "t">>}
Misspelled ==
    {<<"s", "t", "r", "n", "i", "g">>,
     <<"u", "n", "d", "e", "f", "i", "m", "e", "d">>}
IdentifierNames ==
    {StrUndefined,
     <<"O", "b", "j", "e", "c", "t">>,
     <<"S", "t", "r", "i", "n", "g">>,
     <<"B", "i", "g", "I", "n", "t">>,
     <<"b", "a", "z">>}

StringLiterals ==
    {JsStringLiteralExpression(Quoted(q, AsStr(t))) : q \in QuoteChars, t \in JsTypeNames}
    \cup {JsStringLiteralExpression(Quoted("\"", s)) : s \in OtherCase \cup Misspelled}
    \cup {JsStringLiteralMissingValue}

Identifiers ==
    {JsIdentifierExpression(s) : s \in IdentifierNames}
    \cup {JsIdentifierMissingName, JsIdentifierMissingValue}

UnaryExpressions ==
    {JsUnaryExpression(o) : o \in {Some("Typeof"), Some("Minus"), None}}

Expressions ==
    StringLiterals \cup Identifiers \cup UnaryExpressions
    \cup {JsNumberLiteralExpression, JsCallExpression}

\* JsBinaryOperator, with the length of the operator token
EqualityOperators ==
    {[kind |-> "Equality", len |-> 2], [kind |-> "StrictEquality", len |-> 3],
     [kind |-> "Inequality", len |-> 2], [kind |-> "StrictInequality", len |-> 3]}
BinaryOperators ==
    EqualityOperators \cup {[kind |-> "LessThan", len |-> 1], [kind |-> "Plus", len |-> 1]}

\* the expression with the text range it has when it starts at `start`
At(e, start) == [e EXCEPT !.range = <<start, start + Len(e.text)>>]

\* `left operator right`, one blank on each side of the operator; a slot
\* is None when recovery-mode parsing left it out
JsBinaryExpression(left, operator, right) ==
    LET l_end == IF left.some THEN Len(left.val.text) ELSE 0
        o_end == l_end + 1 + (IF operator.some THEN operator.val.len ELSE 0)
    IN  [kind |-> "JsBinaryExpression",
         left |-> IF left.some THEN Some(At(left.val, 0)) ELSE None,
         operator |-> operator,
         right |-> IF right.some THEN Some(At(right.val, o_end + 1)) ELSE None]

\* the comparisons of the model: one operand is a unary expression, or the
\* left one is a call
Slots(S) == {None} \cup {Some(e) : e \in S}
JsBinaryExpressions ==
    {JsBinaryExpression(l, o, r) :
        l \in Slots(UnaryExpressions), o \in Slots(BinaryOperators), r \in Slots(Expressions)}
    \cup
    {JsBinaryExpression(l, o, r) :
        l \in Slots(Expressions), o \in Slots(BinaryOperators), r \in Slots(UnaryExpressions)}
    \cup
    {JsBinaryExpression(Some(JsCallExpression), o, r) :
        o \in Slots(BinaryOperators), r \in Slots(Expressions)}

\* ------------------------------------------------------- useValidTypeof
\* type Query = Ast<JsBinaryExpression>
TypeofQuery(node) == node.kind = "JsBinaryExpression"

InvalidLiteral(range, literal) ==
    [kind |-> "InvalidLiteral", range |-> range, literal |-> literal]
InvalidExpression(range) == [kind |-> "InvalidExpression", range |-> range]

\* Rule::State: (TypeofError, Option<(AnyJsExpression, JsTypeName)>)
TypeofState(error, suggestion) == [error |-> error, suggestion |-> suggestion]

IsTypeof(unary) == unary.operator = Some("Typeof")

\* the literal of a string literal token, as run computes it: trimmed of
\* quotes at both ends, then lower-cased
LiteralOf(value_token) ==
    ToLowercase(TrimEndMatches(TrimStartMatches(TextTrimmed(value_token))))

\* arm `typeof $expr == $lit` / `$lit == typeof $expr`
TypeofLiteralArm(unary, lit) ==
    IF ~unary.operator.some THEN None
    ELSE IF ~IsTypeof(unary) THEN None
    ELSE IF lit.literal = "JsStringLiteralExpression"
    THEN IF ~lit.value_token.some THEN None
         ELSE LET literal == LiteralOf(lit.value_token.val)
                  suggestion == ToLowercase(literal)
              IN  IF FromStr(literal).some THEN None
                  ELSE Some(TypeofState(
                          InvalidLiteral(lit.range, literal),
                          IF FromStr(suggestion).some
                          THEN Some(<<lit, FromStr(suggestion).val>>)
                          ELSE None))
    ELSE Some(TypeofState(InvalidExpression(lit.range), None))

\* variant of the arm of two unary expressions: the ranges are exchanged
TypeofUnaryArmSwapped(left, right) ==
    IF ~left.operator.some THEN None
    ELSE IF ~right.operator.some THEN None
    ELSE IF IsTypeof(left) /\ ~IsTypeof(right)
    THEN Some(TypeofState(InvalidExpression(left.range), None))
    ELSE IF IsTypeof(right) /\ ~IsTypeof(left)
    THEN Some(TypeofState(InvalidExpression(right.range), None))
    ELSE None

\* arm `typeof $expr == typeof $expr`
TypeofUnaryArm(left, right) ==
    IF ~left.operator.some THEN None
    ELSE IF ~right.operator.some THEN None
    ELSE IF IsTypeof(left) /\ ~IsTypeof(right)
    THEN Some(TypeofState(InvalidExpression(right.range), None))
    ELSE IF IsTypeof(right) /\ ~IsTypeof(left)
    THEN Some(TypeofState(InvalidExpression(left.range), None))
    ELSE None

\* the identifier as a type name: its value token, lower-cased, through from_str
IdentSuggestion(ident, id) ==
    IF ~ident.name.some THEN None
    ELSE IF ~ident.name.val.value_token.some THEN None
    ELSE LET to_lower == ToLowercase(TextTrimmed(ident.name.val.value_token.val))
         IN  IF FromStr(to_lower).some
             THEN Some(<<id, FromStr(to_lower).val>>)
             ELSE None

\* arm `typeof $expr == $ident` / `$ident == typeof $expr`; `id` is what the
\* `id @` binding of the matched alternative holds
TypeofIdentArm(unary, ident, id) ==
    IF ~unary.operator.some THEN None
    ELSE IF ~IsTypeof(unary) THEN None
    ELSE Some(TypeofState(InvalidExpression(ident.range), IdentSuggestion(ident, id)))

\* arm `typeof $expr == $expr` / `$expr == typeof $expr`
TypeofExprArm(unary, expr) ==
    IF ~unary.operator.some THEN None
    ELSE IF ~IsTypeof(unary) THEN None
    ELSE Some(TypeofState(InvalidExpression(expr.range), None))

\* the `id @` binding of the identifier arm: the first alternative binds the
\* right operand in `(unary, id @ ident)`, the second alternative binds the
\* right operand too, in `(ident, id @ unary)`
IdentArmBinding(left, right) == right

\* run
TypeofRun(n) ==
    IF ~n.operator.some THEN None
    ELSE IF n.operator.val \notin EqualityOperators THEN None
    ELSE IF ~n.left.some THEN None
    ELSE IF ~n.right.some THEN None
    ELSE LET left == n.left.val
             right == n.right.val
             U == "JsUnaryExpression"
             L == "AnyJsLiteralExpression"
             I == "JsIdentifierExpression"
         IN  CASE left.kind = U /\ right.kind = L -> TypeofLiteralArm(left, right)
               [] left.kind = L /\ right.kind = U -> TypeofLiteralArm(right, left)
               [] left.kind = U /\ right.kind = U -> TypeofUnaryArm(left, right)
               [] left.kind = U /\ right.kind = I ->
                    TypeofIdentArm(left, right, IdentArmBinding(left, right))
               [] left.kind = I /\ right.kind = U ->
                    TypeofIdentArm(right, left, IdentArmBinding(left, right))
               [] left.kind = U /\ right.kind \notin {U, L, I} -> TypeofExprArm(left, right)
               [] right.kind = U /\ left.kind \notin {U, L, I} -> TypeofExprArm(right, left)
               [] OTHER -> None

\* variant of the diagnostic step: the note of InvalidExpression on both errors
TypeofDiagnosticOneNote(st) ==
    Some([category |-> "lint/suspicious/useValidTypeof", range |-> st.error.range,
          note |-> "not a string literal"])

\* diagnostic
TypeofDiagnostic(st) ==
    IF st.error.kind = "InvalidLiteral"
    THEN Some([category |-> "lint/suspicious/useValidTypeof", range |-> st.error.range,
               note |-> "not a valid type name", literal |-> st.error.literal])
    ELSE Some([category |-> "lint/suspicious/useValidTypeof", range |-> st.error.range,
               note |-> "not a string literal"])

\* make::js_string_literal / make::js_string_literal_single_quotes, wrapped
\* in a string literal expression
MakeStringLiteral(preferred_quote, text) ==
    JsStringLiteralExpression(
        IF preferred_quote = "double" THEN Quoted("\"", text) ELSE Quoted("'", text))

\* action: None without a suggestion, else the replacement of the suggested
\* expression by the string literal of the type name
TypeofAction(st, preferred_quote) ==
    IF ~st.suggestion.some THEN None
    ELSE LET expr == st.suggestion.val[1]
             type_name == st.suggestion.val[2]
         IN  Some(JsRuleAction(expr, MakeStringLiteral(preferred_quote, AsStr(type_name))))

\* ------------------------------------------------------------- commit
\* the tree with mutation.prev_node replaced by mutation.next_node
Commit(t, mutation) ==
    IF t.kind = "JsxElement" THEN mutation.next_node
    ELSE JsBinaryExpression(
            IF t.left = Some(mutation.prev_node) THEN Some(mutation.next_node) ELSE t.left,
            t.operator,
            IF t.right = Some(mutation.prev_node) THEN Some(mutation.next_node) ELSE t.right)

\* ---------------------------------------------------------- rule cycle
Rules == {"useSelfClosingElements", "useValidTypeof"}

Query(r, node) ==
    IF r = "useSelfClosingElements" THEN SelfClosingQuery(node) ELSE TypeofQuery(node)

RuleRun(r, node) ==
    IF r = "useSelfClosingElements" THEN SelfClosingRun(node) ELSE TypeofRun(node)

RuleDiagnostic(r, node, st) ==
    IF r = "useSelfClosingElements" THEN SelfClosingDiagnostic(node) ELSE TypeofDiagnostic(st)

RuleAction(r, node, st, preferred_quote) ==
    IF r = "useSelfClosingElements" THEN SelfClosingAction(node)
    ELSE TypeofAction(st, preferred_quote)

Init ==
    /\ rule \in Rules
    /\ quote \in {"double", "single"}
    /\ tree \in (IF rule = "useSelfClosingElements" THEN JsxElements ELSE JsBinaryExpressions)
    /\ rule = "useSelfClosingElements" => quote = "double"
    /\ phase = "query"
    /\ state = None
    /\ diag = None
    /\ act = None
    /\ pass = 1

\* the query layer hands the node to the rule when its kind is the rule's query
Match ==
    /\ phase = "query"
    /\ Query(rule, tree)
    /\ phase' = "matched"
    /\ UNCHANGED <<rule, quote, tree, state, diag, act, pass>>

\* the query layer finds no node of the rule's query kind
NoMatch ==
    /\ phase = "query"
    /\ ~Query(rule, tree)
    /\ phase' = "done"
    /\ UNCHANGED <<rule, quote, tree, state, diag, act, pass>>

\* the analysis step; without a state the cycle of the match ends
Run ==
    /\ phase = "matched"
    /\ state' = RuleRun(rule, tree)
    /\ phase' = IF state'.some THEN "analyzed" ELSE "done"
    /\ UNCHANGED <<rule, quote, tree, diag, act, pass>>

\* the diagnostic step
Diagnostic ==
    /\ phase = "analyzed"
    /\ diag' = RuleDiagnostic(rule, tree, state.val)
    /\ phase' = "diagnosed"
    /\ UNCHANGED <<rule, quote, tree, state, act, pass>>

\* the action step
Action ==
    /\ phase = "diagnosed"
    /\ act' = RuleAction(rule, tree, state.val, quote)
    /\ phase' = "acted"
    /\ UNCHANGED <<rule, quote, tree, state, diag, pass>>

\* the caller commits the mutation of the action and analyses the new tree
ApplyFix ==
    /\ phase = "acted"
    /\ act.some
    /\ pass < MaxPasses
    /\ tree' = Commit(tree, act.val.mutation)
    /\ state' = None
    /\ diag' = None
    /\ act' = None
    /\ pass' = pass + 1
    /\ phase' = "query"
    /\ UNCHANGED <<rule, quote>>

\* the caller keeps the diagnostic and does not apply a fix
Finish ==
    /\ phase = "acted"
    /\ phase' = "done"
    /\ UNCHANGED <<rule, quote, tree, state, diag, act, pass>>

Next == Match \/ NoMatch \/ Run \/ Diagnostic \/ Action \/ ApplyFix \/ Finish

Spec == Init /\ [][Next]_vars

\* ================================================================ claims
JSX == "useSelfClosingElements"
TYPEOF == "useValidTypeof"

\* the action step has run on a flagged JsxElement and built a replacement
SelfClosingBuilt ==
    rule = JSX /\ phase = "acted" /\ tree.kind = "JsxElement" /\ act.some

RECURSIVE AllPieces(_)
AllPieces(toks) ==
    IF toks = <<>> THEN <<>>
    ELSE LeadingPieces(Head(toks)) \o TrailingPieces(Head(toks)) \o AllPieces(Tail(toks))

Occurrences(p, ps) == Cardinality({i \in 1..Len(ps) : ps[i] = p})

\* the text of a tag that precedes the last token before its closing bracket
\* character: for a JsxElement what precedes `>`, for the replacement what
\* precedes `/`
TextBeforeRAngle(open) ==
    TokensText(TokensBeforeRAngle(open)) \o LeadingTriviaText(open.r_angle_token)
TextBeforeSlash(elem) ==
    TokensText(TokensBeforeRAngle(elem))
    \o SubSeq(elem.slash_token.text, 1, Len(elem.slash_token.text) - 1)

RECURSIVE TrailingSpaces(_)
TrailingSpaces(s) ==
    IF EndsWith(s, " ") THEN 1 + TrailingSpaces(SubSeq(s, 1, Len(s) - 1)) ELSE 0

WhitespaceChars == {" ", "\t", "\n"}

\* C1: the self-closing action neither drops nor duplicates trivia: every
\* trivia piece of a token of the replaced element (opening tag and closing
\* tag) occurs in the replacement
\* as often as in the replaced element (the synthetic blank not counted).
C1_TriviaMoved ==
    SelfClosingBuilt =>
        LET old == AllPieces(TagTokens(tree))
            new == AllPieces(TagTokens(act.val.mutation.next_node))
            added == Len(TextBeforeSlash(act.val.mutation.next_node))
                     - Len(TextBeforeRAngle(tree.opening_element))
        IN  \A i \in 1..Len(old) :
                Occurrences(old[i], new)
                    - (IF added = 1 /\ old[i] = Ws(1) THEN 1 ELSE 0)
                = Occurrences(old[i], old)

\* C4 as stated: a synthetic blank is inserted only if no whitespace precedes
\* `>`, and the result never has two blanks immediately before `/>`.
C4_NeverTwoSpaces ==
    SelfClosingBuilt =>
        LET before == TextBeforeRAngle(tree.opening_element)
            after == TextBeforeSlash(act.val.mutation.next_node)
        IN  /\ Len(after) > Len(before) =>
                ~(Len(before) > 0 /\ before[Len(before)] \in WhitespaceChars)
            /\ TrailingSpaces(after) < 2

\* C4 amended: a single synthetic blank is inserted only if `>` has no
\* leading trivia and no blank character immediately precedes it; nothing
\* else changes before the `/`, so the blanks immediately before `/>` are
\* those that preceded `>`, or the one inserted; `<div></div>`, `<div ></div>`
\* and `<div a></div>` become `<div />`, `<div />` and `<div a />`.
C4_NoSpaceAddedToSpace ==
    SelfClosingBuilt =>
        LET open == tree.opening_element
            before == TextBeforeRAngle(open)
            after == TextBeforeSlash(act.val.mutation.next_node)
            plain == <<"<">> \o DivText
        IN  /\ \/ after = before
               \/ /\ after = before \o <<" ">>
                  /\ ~EndsWith(before, " ")
                  /\ open.r_angle_token.leading = <<>>
            /\ TrailingSpaces(after) =
                  IF Len(after) > Len(before) THEN 1 ELSE TrailingSpaces(before)
            /\ before = plain => after = plain \o <<" ">>
            /\ before = plain \o <<" ">> => after = plain \o <<" ">>
            /\ before = plain \o <<" ">> \o AttrText
                  => after = plain \o <<" ">> \o AttrText \o <<" ">>

\* C4 witness: a blank already precedes `>` and the result is `<div />`
C4_Witness ==
    /\ SelfClosingBuilt
    /\ TextBeforeRAngle(tree.opening_element) = <<"<">> \o DivText \o <<" ">>
    /\ TokensText(TagTokens(act.val.mutation.next_node))
          = <<"<">> \o DivText \o <<" ", "/", ">">>

\* C5: once the fix of useSelfClosingElements has been committed, the next
\* pass over the tree never matches the rewritten element: no state, no
\* diagnostic and no action are produced.
C5_FixedPoint ==
    (rule = JSX /\ pass > 1) =>
        /\ phase \in {"query", "done"}
        /\ ~state.some /\ ~diag.some /\ ~act.some

\* C5 witness: the pass after a committed self-closing fix has ended
C5_Witness ==
    /\ rule = JSX /\ pass = 2 /\ phase = "done"
    /\ tree.kind = "JsxSelfClosingElement"

\* C10: the `/` token built by the action is consistent on every path: the
\* lengths of its leading trivia pieces add up to the length of the text
\* before its final `/`, it has no trailing trivia, and the `>` reused in
\* the replacement has no leading trivia.
C10_SlashTokenConsistent ==
    SelfClosingBuilt =>
        LET slash == act.val.mutation.next_node.slash_token
            r == act.val.mutation.next_node.r_angle_token
        IN  /\ Len(slash.text) >= 1
            /\ slash.text[Len(slash.text)] = "/"
            /\ TriviaLen(slash.leading) = Len(slash.text) - 1
            /\ slash.trailing = <<>>
            /\ r.leading = <<>>
            /\ TextTrimmed(r) = <<">">>

\* C10 witness: the path that copies the leading trivia of `>`
C10_Witness ==
    /\ SelfClosingBuilt
    /\ Len(act.val.mutation.next_node.slash_token.leading) = 2
    /\ act.val.mutation.next_node.slash_token.text = <<"\n", " ", "/">>

\* ------------------------------------------------ shapes of comparisons
EqualityKinds == {"Equality", "StrictEquality", "Inequality", "StrictInequality"}
TypeNameTexts ==
    {StrUndefined, StrObject, StrBoolean, StrNumber, StrString, StrFunction,
     StrSymbol, StrBigInt}

IsComparison(t) ==
    /\ t.kind = "JsBinaryExpression"
    /\ t.operator.some /\ t.operator.val.kind \in EqualityKinds
    /\ t.left.some /\ t.right.some

IsTypeofExpression(e) == e.kind = "JsUnaryExpression" /\ e.operator = Some("Typeof")

IsStringLiteral(e) ==
    /\ e.kind = "AnyJsLiteralExpression"
    /\ e.literal = "JsStringLiteralExpression"
    /\ e.value_token.some

\* a string literal `"s"` or `'s'` with s in S
IsStringLiteralOf(e, S) ==
    IsStringLiteral(e) /\ \E q \in QuoteChars, s \in S : e.text = Quoted(q, s)

IsIdentifier(e) ==
    /\ e.kind = "JsIdentifierExpression"
    /\ e.name.some /\ e.name.val.value_token.some

\* the analysis step of the current pass is over
Analyzed == phase \in {"analyzed", "diagnosed", "acted", "done"}
\* the diagnostic step of the current pass is over, or was never reached
Diagnosed == phase \in {"diagnosed", "acted", "done"}
\* the action step of the current pass is over, or was never reached
Acted == phase \in {"acted", "done"}

\* C2 as stated: for typeof compared with an identifier whose lower-cased
\* name is a type name, on either side of the operator, the fix replaces the
\* identifier by the string literal of the type name and keeps the typeof
\* operand.
C2_IdentifierReplaced ==
    (rule = TYPEOF /\ phase = "acted" /\ IsComparison(tree)) =>
        LET l == tree.left.val
            r == tree.right.val
        IN  /\ (IsTypeofExpression(l) /\ IsIdentifier(r)
                    /\ ToLowercase(r.text) \in TypeNameTexts) =>
                  /\ act.some
                  /\ Commit(tree, act.val.mutation) =
                        JsBinaryExpression(Some(l), tree.operator,
                            Some(MakeStringLiteral(quote, ToLowercase(r.text))))
            /\ (IsTypeofExpression(r) /\ IsIdentifier(l)
                    /\ ToLowercase(l.text) \in TypeNameTexts) =>
                  /\ act.some
                  /\ Commit(tree, act.val.mutation) =
                        JsBinaryExpression(
                            Some(MakeStringLiteral(quote, ToLowercase(l.text))),
                            tree.operator, Some(r))

\* typeof on one side, an operand satisfying P on the other
TypeofAgainst(t, P(_)) ==
    /\ IsComparison(t)
    /\ \/ IsTypeofExpression(t.left.val) /\ P(t.right.val)
       \/ IsTypeofExpression(t.right.val) /\ P(t.left.val)

\* the operand that is compared with the typeof expression
Target(t) == IF IsTypeofExpression(t.left.val) THEN t.right.val ELSE t.left.val

IsMisspelledLiteral(e) == IsStringLiteralOf(e, Misspelled)
IsOtherCaseLiteral(e) == IsStringLiteralOf(e, OtherCase)
IsTypeNameLiteral(e) == IsStringLiteralOf(e, TypeNameTexts)

\* C3 as stated: for typeof compared with a misspelled type name such as
\* "strnig", an invalid-literal diagnostic is reported and the fix replaces
\* the literal by "string".
C3_MisspelledFixed ==
    (rule = TYPEOF /\ phase = "acted"
        /\ TypeofAgainst(tree, LAMBDA e : IsStringLiteralOf(e, {<<"s", "t", "r", "n", "i", "g">>}))) =>
        /\ diag.some /\ diag.val.note = "not a valid type name"
        /\ act.some
        /\ act.val.mutation.prev_node = Target(tree)
        /\ act.val.mutation.next_node = MakeStringLiteral(quote, StrString)

\* C3 amended: for typeof compared with a misspelled type name such as
\* "strnig", an invalid-literal diagnostic is reported over the literal and
\* no fix is offered.
C3_MisspelledReported ==
    (rule = TYPEOF /\ TypeofAgainst(tree, IsMisspelledLiteral)) =>
        /\ Analyzed =>
              /\ state.some
              /\ state.val.error.kind = "InvalidLiteral"
              /\ phase # "done" \/ diag.some
        /\ (Diagnosed /\ state.some) =>
              /\ diag.some
              /\ diag.val.note = "not a valid type name"
              /\ diag.val.range = Target(tree).range
        /\ (Acted /\ state.some) => ~act.some

\* C3 witness: `typeof x === "strnig"` reported, the action step returned None
C3_Witness ==
    /\ rule = TYPEOF /\ phase = "acted"
    /\ TypeofAgainst(tree, IsMisspelledLiteral)
    /\ diag.some /\ diag.val.note = "not a valid type name"
    /\ ~act.some

\* a comparison the rule accepts
IsValidComparison(t) ==
    \/ TypeofAgainst(t, IsTypeNameLiteral)
    \/ IsComparison(t) /\ IsTypeofExpression(t.left.val) /\ IsTypeofExpression(t.right.val)

\* C6: a comparison with ==, ===, != or !==, in either order, of typeof
\* with a string literal holding one of the eight type names, or of two
\* typeof expressions, gets no state, no diagnostic and no action.
C6_ValidAccepted ==
    (rule = TYPEOF /\ IsValidComparison(tree)) =>
        /\ phase \in {"query", "matched", "done"}
        /\ ~state.some /\ ~diag.some /\ ~act.some

\* C6 witness: `'bigint' != typeof x` analysed without a state
C6_Witness ==
    /\ rule = TYPEOF /\ phase = "done"
    /\ IsComparison(tree)
    /\ IsTypeofExpression(tree.right.val)
    /\ tree.left.val.text = Quoted("'", StrBigInt)
    /\ ~state.some

\* what typeof is compared with when no fix is known
IsUnknownIdentifier(e) == IsIdentifier(e) /\ ToLowercase(e.text) \notin TypeNameTexts
IsOtherExpression(e) ==
    \/ e.kind = "AnyJsLiteralExpression" /\ e.literal # "JsStringLiteralExpression"
    \/ e.kind = "JsUnaryExpression" /\ e.operator.some /\ e.operator # Some("Typeof")
    \/ e.kind \notin {"AnyJsLiteralExpression", "JsUnaryExpression", "JsIdentifierExpression"}
IsUnfixableTarget(e) == IsUnknownIdentifier(e) \/ IsOtherExpression(e)

\* C7: for typeof compared with an identifier that is no type name, or with
\* an expression that is neither a string literal, an identifier nor a
\* typeof, an invalid-expression diagnostic is reported over that operand
\* and the action step returns no action.
C7_ReportedWithoutFix ==
    (rule = TYPEOF /\ TypeofAgainst(tree, IsUnfixableTarget)) =>
        /\ Analyzed =>
              /\ state.some
              /\ state.val.error = InvalidExpression(Target(tree).range)
              /\ phase # "done" \/ diag.some
        /\ (Diagnosed /\ state.some) =>
              /\ diag.some
              /\ diag.val.note = "not a string literal"
              /\ diag.val.range = Target(tree).range
        /\ (Acted /\ state.some) => ~act.some

\* C7 witness: `-5 == typeof x` reported over `-5`, no action
C7_Witness ==
    /\ rule = TYPEOF /\ phase = "done"
    /\ IsComparison(tree)
    /\ IsTypeofExpression(tree.right.val)
    /\ tree.left.val.kind = "JsUnaryExpression"
    /\ tree.left.val.operator = Some("Minus")
    /\ diag.some /\ diag.val.range = <<0, 2>>
    /\ ~act.some

\* a required child of the comparison is missing
TypeofMissingChild(t) ==
    /\ t.kind = "JsBinaryExpression"
    /\ \/ ~t.operator.some
       \/ ~t.left.some
       \/ ~t.right.some
       \/ \E e \in {t.left.val, t.right.val} :
            \/ e.kind = "JsUnaryExpression" /\ ~e.operator.some
            \/ /\ e.kind = "AnyJsLiteralExpression"
               /\ e.literal = "JsStringLiteralExpression"
               /\ ~e.value_token.some

\* a required child of the opening tag is missing
SelfClosingMissingChild(t) ==
    /\ t.kind = "JsxElement"
    /\ \/ IsMissing(t.opening_element)
       \/ IsMissing(t.opening_element.l_angle_token)
       \/ IsMissing(t.opening_element.name)
       \/ IsMissing(t.opening_element.r_angle_token)

\* C8: a missing required child is absorbed: useValidTypeof yields no state
\* when the operator, an operand, a unary operator or a literal value token
\* is missing; useSelfClosingElements still reports its diagnostic and
\* yields no action when the opening element, `<`, the name or `>` is missing.
C8_MissingChildAbsorbed ==
    /\ (rule = TYPEOF /\ TypeofMissingChild(tree)) =>
          /\ phase \in {"query", "matched", "done"}
          /\ ~state.some /\ ~diag.some /\ ~act.some
    /\ (rule = JSX /\ SelfClosingMissingChild(tree)) =>
          /\ Analyzed => (state.some <=> tree.children = <<>>)
          /\ (Diagnosed /\ state.some) => diag.some
          /\ (Acted /\ state.some) => ~act.some

\* C8 witness: an element without a name, reported, without action
C8_Witness ==
    /\ rule = JSX /\ phase = "acted"
    /\ tree.kind = "JsxElement"
    /\ ~IsMissing(tree.opening_element)
    /\ IsMissing(tree.opening_element.name)
    /\ diag.some /\ ~act.some

\* C9 as stated: for typeof compared with a string literal that differs
\* from a type name only in letter case, an invalid-literal diagnostic is
\* reported and a fix to the lower-case literal is offered.
C9_CaseFixed ==
    (rule = TYPEOF /\ TypeofAgainst(tree, IsOtherCaseLiteral)) =>
        /\ Analyzed =>
              /\ state.some
              /\ state.val.error.kind = "InvalidLiteral"
              /\ state.val.suggestion.some
        /\ phase = "acted" =>
              /\ diag.some
              /\ act.some
              /\ act.val.mutation.prev_node = Target(tree)

====
